---- MODULE Spec2Model ----
(***************************************************************************)
(* Model of src/fetch_image.py: the filename resolver                      *)
(* (get_filename_from_url), the downloader (download_image) and the CLI    *)
(* entry point (main), over a small filesystem and a simulated HTTP        *)
(* response.  Python strings are sequences of one-character strings, so    *)
(* that parsing, decoding and formatting are computed, not assumed.        *)
(***************************************************************************)
EXTENDS Integers, Sequences, FiniteSets, TLC

\* ------------------------------------------------------------------------
\* Bounds of the model
\* ------------------------------------------------------------------------

\* how many chunks iter_content may yield in one download
MaxChunks == 2
\* how many invocations share the filesystem (SpecAgain), and how many times the
\* resolver is given new arguments (SpecResolver)
MaxRuns == 2
\* how many seconds the clock may advance past ClockStart
MaxTicks == 1
\* how many distinct uuid4 prefixes the random source may produce (minus one)
MaxIdIndex == 1

\* ------------------------------------------------------------------------
\* Python str operations used by the program
\* ------------------------------------------------------------------------

UpperChars == <<"A", "B", "C", "D", "E", "F", "G", "H", "I", "J", "K", "L", "M",
                "N", "O", "P", "Q", "R", "S", "T", "U", "V", "W", "X", "Y", "Z">>

LowerChars == <<"a", "b", "c", "d", "e", "f", "g", "h", "i", "j", "k", "l", "m",
                "n", "o", "p", "q", "r", "s", "t", "u", "v", "w", "x", "y", "z">>

DigitChars == <<"0", "1", "2", "3", "4", "5", "6", "7", "8", "9">>

HexChars == <<"0", "1", "2", "3", "4", "5", "6", "7", "8", "9",
              "a", "b", "c", "d", "e", "f">>

\* the printable ASCII characters, code 32 first (code 96 is spelled out)
AsciiChars == <<" ", "!", "\"", "#", "$", "%", "&", "'", "(", ")", "*", "+", ",",
                "-", ".", "/", "0", "1", "2", "3", "4", "5", "6", "7", "8", "9",
                ":", ";", "<", "=", ">", "?", "@", "A", "B", "C", "D", "E", "F",
                "G", "H", "I", "J", "K", "L", "M", "N", "O", "P", "Q", "R", "S",
                "T", "U", "V", "W", "X", "Y", "Z", "[", "\\", "]", "^", "_", "BACKQUOTE",
                "a", "b", "c", "d", "e", "f", "g", "h", "i", "j", "k", "l", "m",
                "n", "o", "p", "q", "r", "s", "t", "u", "v", "w", "x", "y", "z",
                "{", "|", "}", "~">>

Range(s) == {s[i] : i \in 1..Len(s)}

\* 1-based position of c in the tuple t, 0 when absent
PosIn(t, c) == IF c \in Range(t) THEN CHOOSE i \in 1..Len(t) : t[i] = c ELSE 0

\* str.find(c, start) with 1-based positions: the first i >= start with s[i] = c, 0 when none
Find(s, c, start) ==
    LET hits == {i \in 1..Len(s) : i >= start /\ s[i] = c}
    IN  IF hits = {} THEN 0 ELSE CHOOSE i \in hits : \A j \in hits : i <= j

\* str.rfind(c) with 1-based positions, 0 when none
RFind(s, c) ==
    LET hits == {i \in 1..Len(s) : s[i] = c}
    IN  IF hits = {} THEN 0 ELSE CHOOSE i \in hits : \A j \in hits : i >= j

\* s[i:] and s[:i] of Python, with 1-based inclusive positions
From(s, i) == SubSeq(s, i, Len(s))
Upto(s, i) == SubSeq(s, 1, i)

\* str.startswith
StartsWith(s, p) == Len(s) >= Len(p) /\ SubSeq(s, 1, Len(p)) = p

\* str.lower on ASCII
LowerChar(c) == IF PosIn(UpperChars, c) > 0 THEN LowerChars[PosIn(UpperChars, c)] ELSE c
Lower(s) == [i \in 1..Len(s) |-> LowerChar(s[i])]

\* s.split(c)[0]
SplitFirst(s, c) == IF Find(s, c, 1) = 0 THEN s ELSE Upto(s, Find(s, c, 1) - 1)

\* s.split(c)[-1]
SplitLast(s, c) == From(s, RFind(s, c) + 1)

\* s.split(c, 1): the part before the first c
Before(s, c) == SplitFirst(s, c)

\* str.strip() on spaces
RECURSIVE LStrip(_)
LStrip(s) == IF s # <<>> /\ s[1] = " " THEN LStrip(Tail(s)) ELSE s
RECURSIVE RStrip(_)
RStrip(s) == IF s # <<>> /\ s[Len(s)] = " " THEN RStrip(Upto(s, Len(s) - 1)) ELSE s
Strip(s) == RStrip(LStrip(s))

\* str(int) for a non-negative int
RECURSIVE Str(_)
Str(n) == IF n < 10 THEN <<DigitChars[n + 1]>>
          ELSE Str(n \div 10) \o <<DigitChars[(n % 10) + 1]>>

\* ------------------------------------------------------------------------
\* Library functions the program calls
\* ------------------------------------------------------------------------

IsAlpha(c) == PosIn(UpperChars, c) > 0 \/ PosIn(LowerChars, c) > 0
IsSchemeChar(c) == IsAlpha(c) \/ PosIn(DigitChars, c) > 0 \/ c \in {"+", "-", "."}

\* urllib.parse._splitnetloc(url, 2): the rest of the URL after the authority
AfterNetloc(u) ==
    LET ds == {Find(u, c, 3) : c \in {"/", "?", "#"}} \ {0}
    IN  IF ds = {} THEN <<>>
        ELSE From(u, CHOOSE d \in ds : \A e \in ds : d <= e)

\* urllib.parse._splitparams: the path without the parameters of its last segment
SplitParams(p) ==
    LET i == IF "/" \in Range(p) THEN Find(p, ";", RFind(p, "/")) ELSE Find(p, ";", 1)
    IN  IF i = 0 THEN p ELSE Upto(p, i - 1)

\* urllib.parse.urlparse: the scheme and path components
urlparse(u0) ==
    LET u == LStrip(u0)
        i == Find(u, ":", 1)
        hasScheme == /\ i > 1
                     /\ IsAlpha(u[1])
                     /\ \A k \in 1..(i - 1) : IsSchemeChar(u[k])
        scheme == IF hasScheme THEN Lower(Upto(u, i - 1)) ELSE <<>>
        rest == IF hasScheme THEN From(u, i + 1) ELSE u
        afterNet == IF Len(rest) >= 2 /\ rest[1] = "/" /\ rest[2] = "/"
                    THEN AfterNetloc(rest) ELSE rest
        noFrag == Before(afterNet, "#")
        noQuery == Before(noFrag, "?")
    IN  [scheme |-> scheme, path |-> SplitParams(noQuery)]

HexValue(c) == IF PosIn(HexChars, LowerChar(c)) > 0 THEN PosIn(HexChars, LowerChar(c)) - 1 ELSE -1

\* the character of a percent-escape; codes outside printable ASCII are kept as
\* one opaque character
Chr(n) == IF n >= 32 /\ n <= 126 THEN AsciiChars[n - 31] ELSE "\\x"

\* urllib.parse.unquote: every %XX with two hex digits is decoded, anything else kept
RECURSIVE unquote(_)
unquote(s) ==
    IF s = <<>> THEN <<>>
    ELSE IF /\ s[1] = "%"
            /\ Len(s) >= 3
            /\ HexValue(s[2]) >= 0
            /\ HexValue(s[3]) >= 0
         THEN <<Chr(16 * HexValue(s[2]) + HexValue(s[3]))>> \o unquote(From(s, 4))
         ELSE <<s[1]>> \o unquote(Tail(s))

\* os.path.basename (posixpath): what follows the last "/"
basename(p) == From(p, RFind(p, "/") + 1)

\* uuid.uuid4().hex[:6] for a uuid whose leading 24 bits are n
Hex6(n) == [k \in 1..6 |-> HexChars[((n \div (16 ^ (6 - k))) % 16) + 1]]

\* ------------------------------------------------------------------------
\* Constants of the program
\* ------------------------------------------------------------------------

FETCH_DIR == <<"F", "e", "t", "c", "h", "e", "d", "_", "I", "m", "a", "g", "e", "s">>

COMMON_IMAGE_EXT ==
    { << <<"i", "m", "a", "g", "e", "/", "j", "p", "e", "g">>, <<".", "j", "p", "g">> >>,
      << <<"i", "m", "a", "g", "e", "/", "p", "j", "p", "e", "g">>, <<".", "j", "p", "g">> >>,
      << <<"i", "m", "a", "g", "e", "/", "p", "n", "g">>, <<".", "p", "n", "g">> >>,
      << <<"i", "m", "a", "g", "e", "/", "g", "i", "f">>, <<".", "g", "i", "f">> >>,
      << <<"i", "m", "a", "g", "e", "/", "w", "e", "b", "p">>, <<".", "w", "e", "b", "p">> >>,
      << <<"i", "m", "a", "g", "e", "/", "b", "m", "p">>, <<".", "b", "m", "p">> >>,
      << <<"i", "m", "a", "g", "e", "/", "s", "v", "g", "+", "x", "m", "l">>, <<".", "s", "v", "g">> >>,
      << <<"i", "m", "a", "g", "e", "/", "x", "-", "i", "c", "o", "n">>, <<".", "i", "c", "o">> >> }

\* dict.get: the mapped extension, or the empty string for None
CommonExtGet(ct) ==
    IF \E e \in COMMON_IMAGE_EXT : e[1] = ct
    THEN (CHOOSE e \in COMMON_IMAGE_EXT : e[1] = ct)[2]
    ELSE <<>>

ImagePrefix == <<"i", "m", "a", "g", "e">>
ImageSlash == <<"i", "m", "a", "g", "e", "/">>
DefaultExt == <<".", "j", "p", "g">>
GeneratedPrefix == <<"i", "m", "a", "g", "e", "_">>

\* response.headers.get("Content-Type", "").split(";")[0].lower()
\* a header is [present |-> BOOLEAN, value |-> str]
ContentType(hdr) == Lower(SplitFirst(IF hdr.present THEN hdr.value ELSE <<>>, ";"))


\* ------------------------------------------------------------------------
\* Filename Resolver: get_filename_from_url
\* ------------------------------------------------------------------------

\* name = os.path.basename(unquote(urlparse(url).path or ""))
UrlName(u) == basename(unquote(urlparse(u).path))

\* name and "." in name
HasExtension(name) == name # <<>> /\ "." \in Range(name)

\* a faulty variant of ExtFromContentType: the header is not lowercased
ExtFromContentType_CaseSensitive(hdr) ==
    LET content_type == SplitFirst(IF hdr.present THEN hdr.value ELSE <<>>, ";")
        ext == CommonExtGet(content_type)
    IN  IF ext # <<>> THEN ext
        ELSE IF StartsWith(content_type, ImageSlash)
             THEN <<".">> \o SplitLast(content_type, "/")
             ELSE DefaultExt

\* the extension derived from the Content-Type header: the fixed mapping, then
\* "." + subtype for other image/ types, then the default
ExtFromContentType(hdr) ==
    LET content_type == ContentType(hdr)
        ext == CommonExtGet(content_type)
        ext2 == IF ext = <<>> /\ StartsWith(content_type, ImageSlash)
                THEN <<".">> \o SplitLast(content_type, "/")
                ELSE ext
    IN  IF ext2 = <<>> THEN DefaultExt ELSE ext2

\* a faulty variant of GeneratedName: the random suffix is left out
GeneratedName_NoSuffix(timestamp, id24, ext) ==
    GeneratedPrefix \o Str(timestamp) \o <<"_">> \o ext

\* f"image_{timestamp}_{short_id}{ext}"
GeneratedName(timestamp, id24, ext) ==
    GeneratedPrefix \o Str(timestamp) \o <<"_">> \o Hex6(id24) \o ext

\* whether the resolver reads the Content-Type header for this URL
ReadsContentType(u) == ~HasExtension(UrlName(u))

\* a faulty variant of the resolver: a mapped Content-Type overrides the URL's name
get_filename_prefers_type(u, hdr, timestamp, id24) ==
    IF CommonExtGet(ContentType(hdr)) # <<>> \/ ~HasExtension(UrlName(u))
    THEN GeneratedName(timestamp, id24, ExtFromContentType(hdr))
    ELSE UrlName(u)

\* get_filename_from_url: the URL's name when it has an extension, else a
\* generated name
get_filename_from_url(u, hdr, timestamp, id24) ==
    IF HasExtension(UrlName(u))
    THEN UrlName(u)
    ELSE GeneratedName(timestamp, id24, ExtFromContentType(hdr))

\* ------------------------------------------------------------------------
\* Downloader: the pieces of download_image
\* ------------------------------------------------------------------------

\* requests.get raises (MissingSchema, InvalidSchema) unless the URL is http(s)
RequestsAccepts(u) ==
    urlparse(u).scheme \in {<<"h", "t", "t", "p">>, <<"h", "t", "t", "p", "s">>}

\* a faulty variant of raise_for_status: client errors pass
raise_for_status_5xx_only(s) == s >= 500 /\ s < 600

\* resp.raise_for_status(): HTTPError for 4xx and 5xx only
raise_for_status(s) == s >= 400 /\ s < 600

\* a faulty variant of IsImageType: the operands of startswith are swapped
IsImageType_Swapped(hdr) == StartsWith(ImagePrefix, ContentType(hdr))

\* content_type.startswith("image")
IsImageType(hdr) == StartsWith(ContentType(hdr), ImagePrefix)

\* str.split("/") without the empty and "." components (pathlib drops both)
RECURSIVE PathParts(_)
PathParts(p) ==
    IF p = <<>> THEN <<>>
    ELSE LET first == SplitFirst(p, "/")
             rest == IF Find(p, "/", 1) = 0 THEN <<>> ELSE From(p, Find(p, "/", 1) + 1)
         IN  IF first = <<>> \/ first = <<".">>
             THEN PathParts(rest)
             ELSE <<first>> \o PathParts(rest)

\* filepath = FETCH_DIR / filename
filepath(name) ==
    IF name # <<>> /\ name[1] = "/"
    THEN [absolute |-> TRUE, parts |-> PathParts(name)]
    ELSE [absolute |-> FALSE, parts |-> <<FETCH_DIR>> \o PathParts(name)]

DotDot == <<".", ".">>

\* open(filepath, "wb") on a filesystem whose fetch directory is dir ("dir"),
\* a regular file ("file") or missing ("absent"): where the file lands, or "error"
\* for an OSError (IsADirectoryError, FileNotFoundError, NotADirectoryError,
\* PermissionError)
OpenTarget(fp, dir, writable) ==
    IF fp.absolute THEN "outside"
    ELSE IF Len(fp.parts) = 1
         THEN IF dir = "dir" THEN "error"
              ELSE IF dir = "file" THEN "dirpath"
              ELSE IF writable THEN "dirpath" ELSE "error"
    ELSE IF dir # "dir" THEN "error"
    ELSE IF Len(fp.parts) = 2
         THEN IF fp.parts[2] = DotDot THEN "error" ELSE "child"
    ELSE IF fp.parts[2] = DotDot /\ writable THEN "outside" ELSE "error"

\* a faulty variant of WriteChunk: each write replaces what was written
WriteChunk_Overwrite(bytes, chunk) == chunk

\* f.write(chunk) on a file opened "wb": the bytes are appended
WriteChunk(bytes, chunk) == bytes \o chunk

\* except OSError: requests.exceptions.RequestException derives from IOError,
\* which is OSError
CaughtByExceptOSError(exc) == exc \in {"OSError", "RequestException"}


\* ------------------------------------------------------------------------
\* Inputs
\* ------------------------------------------------------------------------

Http == <<"h", "t", "t", "p", ":", "/", "/", "h">>

\* URLs given to main's prompt and to download_image
URLs ==
    { Http \o <<"/", "a", "/", "b", ".", "p", "n", "g">>,
      Http \o <<"/", "a", "%", "2", "F", ".", ".", "%", "2", "F", "c", ".", "p", "n", "g">>,
      Http \o <<"/", "a", "/", ".", ".">>,
      Http \o <<"/", "a", "/", ".">>,
      Http \o <<"/", "a", "/", "b">>,
      <<" ">> \o Http \o <<"/", "a", "/", "b", ".", "p", "n", "g">>,
      <<"f", "t", "p", ":", "/", "/", "h", "/", "a", ".", "p", "n", "g">>,
      <<" ">>,
      <<>> }

\* further URLs for the resolver called on its own
ResolverURLs ==
    URLs \cup
    { Http,
      Http \o <<"/", "a", "/", "b", ".", "p", "n", "g", ";", "x">>,
      Http \o <<"/", "a", ".", "b", "/", "c">>,
      Http \o <<"/", "c", "?", "q", "=", "/", "x", ".", "y">>,
      Http \o <<"/", "a", "/", "c", "#", "x", ".", "y">>,
      <<"H", "T", "T", "P", "S", ":", "/", "/", "h", "/", "a", "%", "2", "E", "b">> }

NoHeader == [present |-> FALSE, value |-> <<>>]
Hdr(v) == [present |-> TRUE, value |-> v]

\* Content-Type headers of the simulated responses
Headers ==
    { NoHeader,
      Hdr(<<"t", "e", "x", "t", "/", "h", "t", "m", "l">>),
      Hdr(<<"i", "m", "a", "g", "e", "/", "p", "n", "g">>),
      Hdr(<<"I", "m", "a", "g", "e", "/", "J", "p", "e", "g", ";", "q", "=", "1">>),
      Hdr(<<"i", "m", "a", "g", "e", "/">>) }

\* further headers for the resolver called on its own
ResolverHeaders ==
    Headers \cup
    { Hdr(<<"I", "M", "A", "G", "E", "/", "P", "N", "G">>),
      Hdr(<<"i", "m", "a", "g", "e", "/", "t", "i", "f", "f">>),
      Hdr(<<"i", "m", "a", "g", "e", "/", "s", "v", "g", "+", "x", "m", "l">>),
      Hdr(<<"i", "m", "a", "g", "e", "/", "x", "-", "i", "c", "o", "n">>),
      Hdr(<<"i", "m", "a", "g", "e", "/", "p", "n", "g", ";", " ", "c", "h", "a", "r", "s", "e", "t", "=", "x">>),
      Hdr(<<"i", "m", "a", "g", "e">>),
      Hdr(<<"i", "m", "a", "g", "e", "x", "/", "f", "o", "o">>) }

\* the simulated responses: a status code and a Content-Type header
Responses ==
    {[status |-> 200, header |-> h] : h \in Headers} \cup
    {[status |-> 204, header |-> NoHeader],
     [status |-> 304, header |-> Hdr(<<"i", "m", "a", "g", "e", "/", "p", "n", "g">>)],
     [status |-> 404, header |-> Hdr(<<"i", "m", "a", "g", "e", "/", "p", "n", "g">>)],
     [status |-> 404, header |-> Hdr(<<"t", "e", "x", "t", "/", "h", "t", "m", "l">>)],
     [status |-> 503, header |-> NoHeader]}

\* chunks iter_content may yield (bytes as small numbers)
Chunks == {<<>>, <<1>>, <<2>>}

\* the first reading of the clock, in seconds
ClockStart == 9
Times == ClockStart..(ClockStart + MaxTicks)

\* leading 24 bits of the uuids the random source may produce
Ids == {(k * 11184810) % 16777216 : k \in 0..MaxIdIndex}

\* ------------------------------------------------------------------------
\* State
\* ------------------------------------------------------------------------

VARIABLES
    pc,            \* where the invocation stands
    run,           \* how many invocations have started
    url,           \* the URL download_image or the resolver was given
    status,        \* status code of the response, 0 before one arrives
    header,        \* Content-Type header of the response
    filename,      \* what get_filename_from_url returned
    stamp,         \* int(time.time()) read by the resolver, -1 when not read
    rid,           \* leading bits of the uuid drawn by the resolver, -1 when not drawn
    arrived,       \* the chunks iter_content has yielded, in order
    dest,          \* where the opened file landed: "none", "child", "dirpath", "outside"
    outcome,       \* how the invocation ended
    dirState,      \* the fetch directory: "absent", "dir" or "file" (a regular file)
    cwdWritable,   \* whether the working directory admits new entries
    files,         \* contents of the files in the fetch directory, by name
    fetchFile,     \* contents of the regular file at the fetch directory's path
    created,       \* the paths this invocation opened for writing
    lastTime,      \* the latest clock reading
    getCount,      \* how many GETs this invocation issued
    resolverCalls, \* how many times this invocation called the resolver
    ctConsulted,   \* whether the resolver read the Content-Type header
    netFail,       \* where a network-level failure hit: "none", "get", "stream"
    prev           \* the previous invocation's save under a generated name

vars == <<pc, run, url, status, header, filename, stamp, rid, arrived, dest, outcome,
          dirState, cwdWritable, files, fetchFile, created, lastTime, getCount,
          resolverCalls, ctConsulted, netFail, prev>>

fsVars == <<dirState, files, fetchFile, created, dest>>
respVars == <<status, header, arrived, netFail, getCount>>
nameVars == <<filename, stamp, rid, lastTime, resolverCalls, ctConsulted>>

NoPrev == [saved |-> FALSE, url |-> <<>>, header |-> NoHeader,
           filename |-> <<>>, bytes |-> <<>>, stamp |-> -1, rid |-> -1]

EmptyDir == [n \in {} |-> <<>>]

\* what the fetch directory may hold at the start: nothing, or a file left by an
\* earlier download
InitialDirs == {EmptyDir, [n \in {<<"b", ".", "p", "n", "g">>} |-> <<3>>]}

Init ==
    /\ pc = "idle"
    /\ run = 0
    /\ url = <<>>
    /\ status = 0
    /\ header = NoHeader
    /\ filename = <<>>
    /\ stamp = -1
    /\ rid = -1
    /\ arrived = <<>>
    /\ dest = "none"
    /\ outcome = "none"
    /\ dirState \in {"absent", "dir", "file"}
    /\ cwdWritable \in BOOLEAN
    \* the working directory's permissions matter only while the directory is absent
    /\ (dirState # "absent" => cwdWritable)
    /\ files \in InitialDirs
    /\ (dirState # "dir" => files = EmptyDir)
    /\ fetchFile = <<>>
    /\ created = {}
    /\ lastTime = ClockStart
    /\ getCount = 0
    /\ resolverCalls = 0
    /\ ctConsulted = FALSE
    /\ netFail = "none"
    /\ prev = NoPrev


\* ------------------------------------------------------------------------
\* Operations
\* ------------------------------------------------------------------------

\* a fresh invocation: nothing of the last one is kept but the filesystem, the
\* clock, and the record of its save under a generated name
FreshRun ==
    /\ run' = run + 1
    /\ prev' = IF outcome = "Success" /\ ctConsulted /\ dest = "child"
               THEN [saved |-> TRUE, url |-> url, header |-> header,
                     filename |-> filename,
                     bytes |-> files[filename], stamp |-> stamp, rid |-> rid]
               ELSE NoPrev
    /\ status' = 0
    /\ header' = NoHeader
    /\ filename' = <<>>
    /\ stamp' = -1
    /\ rid' = -1
    /\ arrived' = <<>>
    /\ dest' = "none"
    /\ outcome' = "none"
    /\ created' = {}
    /\ getCount' = 0
    /\ resolverCalls' = 0
    /\ ctConsulted' = FALSE
    /\ netFail' = "none"
    /\ UNCHANGED <<dirState, cwdWritable, files, fetchFile, lastTime>>

\* the program is launched: main() begins
MainStart ==
    /\ pc = "idle"
    /\ FreshRun
    /\ url' = <<>>
    /\ pc' = "ensure"

\* download_image(u) is called on its own
DownloadStart(u) ==
    /\ pc = "idle"
    /\ FreshRun
    /\ url' = u
    /\ pc' = "get"

\* the program is launched again, on the filesystem the last invocation left
MainAgain ==
    /\ pc = "done"
    /\ run < MaxRuns
    /\ FreshRun
    /\ url' = <<>>
    /\ pc' = "ensure"

\* download_image(u) is called again
DownloadAgain(u) ==
    /\ pc = "done"
    /\ run < MaxRuns
    /\ FreshRun
    /\ url' = u
    /\ pc' = "get"

\* ensure_fetch_dir(): FETCH_DIR.mkdir(parents=True, exist_ok=True), called by
\* main outside any try: a PermissionError or FileExistsError leaves main
ensure_fetch_dir ==
    /\ pc = "ensure"
    /\ IF dirState = "dir" \/ (dirState = "absent" /\ cwdWritable)
       THEN /\ dirState' = "dir"
            /\ pc' = "prompt"
            /\ outcome' = outcome
       ELSE /\ dirState' = dirState
            /\ pc' = "done"
            /\ outcome' = "UncaughtException"
    /\ UNCHANGED <<run, url, cwdWritable, files, fetchFile, created, dest, prev>>
    /\ UNCHANGED respVars
    /\ UNCHANGED nameVars

\* main reads the URL, strips it, and checks it is non-empty and http(s)
Prompt(raw) ==
    /\ pc = "prompt"
    /\ url' = Strip(raw)
    /\ IF Strip(raw) # <<>> /\ urlparse(Strip(raw)).scheme \in
                                 {<<"h", "t", "t", "p">>, <<"h", "t", "t", "p", "s">>}
       THEN pc' = "get" /\ outcome' = outcome
       ELSE pc' = "done" /\ outcome' = "InvalidInput"
    /\ UNCHANGED <<run, cwdWritable, prev>>
    /\ UNCHANGED fsVars
    /\ UNCHANGED respVars
    /\ UNCHANGED nameVars

\* requests.get raises a RequestException (DNS, connection, timeout, or a URL
\* requests rejects): caught, reported as a network error
GetFails ==
    /\ pc = "get"
    /\ getCount' = getCount + 1
    /\ netFail' = IF RequestsAccepts(url) THEN "get" ELSE netFail
    /\ outcome' = "NetworkError"
    /\ pc' = "done"
    /\ UNCHANGED <<run, url, cwdWritable, prev, status, header, arrived>>
    /\ UNCHANGED fsVars
    /\ UNCHANGED nameVars

\* requests.get returns a response; raise_for_status() decides whether it is kept
GetResponds(s, h) ==
    /\ pc = "get"
    /\ RequestsAccepts(url)
    /\ getCount' = getCount + 1
    /\ status' = s
    /\ header' = h
    /\ IF raise_for_status(s)
       THEN outcome' = "NetworkError" /\ pc' = "done"
       ELSE outcome' = outcome /\ pc' = "check"
    /\ UNCHANGED <<run, url, cwdWritable, prev, arrived, netFail>>
    /\ UNCHANGED fsVars
    /\ UNCHANGED nameVars

\* the Content-Type test
CheckContentType ==
    /\ pc = "check"
    /\ IF IsImageType(header)
       THEN outcome' = outcome /\ pc' = "resolve"
       ELSE outcome' = "NotAnImage" /\ pc' = "done"
    /\ UNCHANGED <<run, url, cwdWritable, prev>>
    /\ UNCHANGED fsVars
    /\ UNCHANGED respVars
    /\ UNCHANGED nameVars

\* get_filename_from_url(url, resp) runs; the clock and the uuid are read only
\* when a name is generated
ResolverActs(t, id24) ==
    /\ t >= lastTime
    /\ filename' = get_filename_from_url(url, header, t, id24)
    /\ resolverCalls' = resolverCalls + 1
    /\ ctConsulted' = ReadsContentType(url)
    /\ IF ReadsContentType(url)
       THEN stamp' = t /\ rid' = id24 /\ lastTime' = t
       ELSE stamp' = stamp /\ rid' = rid /\ lastTime' = lastTime

\* filename = get_filename_from_url(url, resp) in download_image
Resolve(t, id24) ==
    /\ pc = "resolve"
    /\ ResolverActs(t, id24)
    /\ pc' = "open"
    /\ UNCHANGED <<run, url, cwdWritable, prev, outcome>>
    /\ UNCHANGED fsVars
    /\ UNCHANGED respVars

\* open(filepath, "wb"): creates or truncates the file, or raises an OSError
Open ==
    /\ pc = "open"
    /\ LET fp == filepath(filename)
           target == OpenTarget(fp, dirState, cwdWritable)
       IN  /\ dest' = IF target = "error" THEN dest ELSE target
           /\ created' = IF target = "error" THEN created ELSE created \cup {fp}
           /\ files' = IF target = "child"
                       THEN [n \in DOMAIN files \cup {fp.parts[2]} |->
                                IF n = fp.parts[2] THEN <<>> ELSE files[n]]
                       ELSE files
           /\ fetchFile' = IF target = "dirpath" THEN <<>> ELSE fetchFile
           /\ dirState' = IF target = "dirpath" THEN "file" ELSE dirState
           /\ IF target = "error"
              THEN outcome' = "WriteError" /\ pc' = "done"
              ELSE outcome' = outcome /\ pc' = "stream"
    /\ UNCHANGED <<run, url, cwdWritable, prev>>
    /\ UNCHANGED respVars
    /\ UNCHANGED nameVars

\* the bytes of the open file after f.write(c)
Written(c) ==
    /\ files' = IF dest = "child"
                THEN [files EXCEPT ![filename] = WriteChunk(@, c)]
                ELSE files
    /\ fetchFile' = IF dest = "dirpath" THEN WriteChunk(fetchFile, c) ELSE fetchFile

\* one turn of the loop: iter_content yields a chunk, written when non-empty
StreamChunk(c) ==
    /\ pc = "stream"
    /\ Len(arrived) < MaxChunks
    /\ arrived' = Append(arrived, c)
    /\ IF c # <<>> THEN Written(c) ELSE UNCHANGED <<files, fetchFile>>
    /\ UNCHANGED <<pc, run, url, cwdWritable, prev, outcome, dirState, created, dest>>
    /\ UNCHANGED <<status, header, netFail, getCount>>
    /\ UNCHANGED nameVars

\* the body ends: download_image returns filepath
StreamEnd ==
    /\ pc = "stream"
    /\ outcome' = "Success"
    /\ pc' = "done"
    /\ UNCHANGED <<run, url, cwdWritable, prev>>
    /\ UNCHANGED fsVars
    /\ UNCHANGED respVars
    /\ UNCHANGED nameVars

\* the loop raises: iter_content a RequestException (connection broken, read
\* timeout), f.write an OSError (disk full); the except clause decides the outcome
StreamRaises(exc) ==
    /\ pc = "stream"
    /\ netFail' = IF exc = "RequestException" THEN "stream" ELSE netFail
    /\ outcome' = IF CaughtByExceptOSError(exc) THEN "WriteError" ELSE "UncaughtException"
    /\ pc' = "done"
    /\ UNCHANGED <<run, url, cwdWritable, prev, status, header, arrived, getCount>>
    /\ UNCHANGED fsVars
    /\ UNCHANGED nameVars

Next ==
    \/ MainStart
    \/ \E u \in URLs : DownloadStart(u)
    \/ ensure_fetch_dir
    \/ \E raw \in URLs : Prompt(raw)
    \/ GetFails
    \/ \E r \in Responses : GetResponds(r.status, r.header)
    \/ CheckContentType
    \/ \E t \in Times, id24 \in Ids : Resolve(t, id24)
    \/ Open
    \/ \E c \in Chunks : StreamChunk(c)
    \/ StreamEnd
    \/ \E exc \in {"RequestException", "OSError"} : StreamRaises(exc)

\* one invocation, from any of the initial filesystems
Spec == Init /\ [][Next]_vars

NextAgain ==
    \/ Next
    \/ MainAgain
    \/ \E u \in URLs : DownloadAgain(u)

\* up to MaxRuns invocations, one after the other, on the same filesystem
SpecAgain == Init /\ [][NextAgain]_vars


\* ------------------------------------------------------------------------
\* The resolver called on its own, on any URL and any headers
\* ------------------------------------------------------------------------

InitResolver ==
    /\ pc = "resolver"
    /\ run = 0
    /\ url \in ResolverURLs
    /\ header \in ResolverHeaders
    /\ status = 0
    /\ filename = <<>>
    /\ stamp = -1
    /\ rid = -1
    /\ arrived = <<>>
    /\ dest = "none"
    /\ outcome = "none"
    /\ dirState = "dir"
    /\ cwdWritable = TRUE
    /\ files = EmptyDir
    /\ fetchFile = <<>>
    /\ created = {}
    /\ lastTime = ClockStart
    /\ getCount = 0
    /\ resolverCalls = 0
    /\ ctConsulted = FALSE
    /\ netFail = "none"
    /\ prev = NoPrev

\* get_filename_from_url(url, response) is called
ResolverCall(t, id24) ==
    /\ pc = "resolver"
    /\ ResolverActs(t, id24)
    /\ pc' = "resolved"
    /\ UNCHANGED <<run, url, cwdWritable, prev, outcome>>
    /\ UNCHANGED fsVars
    /\ UNCHANGED respVars

\* the caller picks the next arguments
ResolverArgs(u, h) ==
    /\ pc = "resolved"
    /\ run < MaxRuns
    /\ run' = run + 1
    /\ url' = u
    /\ header' = h
    /\ filename' = <<>>
    /\ stamp' = -1
    /\ rid' = -1
    /\ resolverCalls' = 0
    /\ ctConsulted' = FALSE
    /\ pc' = "resolver"
    /\ UNCHANGED <<cwdWritable, prev, outcome, lastTime, status, arrived, netFail, getCount>>
    /\ UNCHANGED fsVars

NextResolver ==
    \/ \E t \in Times, id24 \in Ids : ResolverCall(t, id24)
    \/ \E u \in ResolverURLs, h \in ResolverHeaders : ResolverArgs(u, h)

SpecResolver == InitResolver /\ [][NextResolver]_vars


\* ------------------------------------------------------------------------
\* Properties
\* ------------------------------------------------------------------------

\* the final segment of a path: what follows its last "/" (the whole path when
\* it has none)
FinalSegment(p) ==
    LET k == CHOOSE k \in 0..Len(p) :
                 /\ (k = 0 \/ p[k] = "/")
                 /\ \A j \in (k + 1)..Len(p) : p[j] # "/"
    IN  SubSeq(p, k + 1, Len(p))

\* the percent-decoded path of a URL
DecodedPath(u) == unquote(urlparse(u).path)

\* the URL has a path extension: a non-empty final segment containing a "."
HasPathExtension(u) ==
    /\ FinalSegment(DecodedPath(u)) # <<>>
    /\ \E i \in 1..Len(FinalSegment(DecodedPath(u))) : FinalSegment(DecodedPath(u))[i] = "."

\* the declared type: parameters after ";" stripped, lowercased, empty when absent
DeclaredType(hdr) ==
    LET raw == IF hdr.present THEN hdr.value ELSE <<>>
        semi == {i \in 1..Len(raw) : raw[i] = ";"}
        cut == IF semi = {} THEN Len(raw)
               ELSE (CHOOSE i \in semi : \A j \in semi : i <= j) - 1
    IN  [i \in 1..cut |-> LowerChar(raw[i])]

\* name is image_<digits>_<6 hex chars><ext>
MatchesGenerated(name, ext) ==
    LET d == Len(name) - Len(ext) - 13
    IN  /\ d >= 1
        /\ SubSeq(name, 1, 6) = <<"i", "m", "a", "g", "e", "_">>
        /\ \A i \in 7..(6 + d) : name[i] \in Range(DigitChars)
        /\ name[7 + d] = "_"
        /\ \A i \in (8 + d)..(13 + d) : name[i] \in Range(HexChars)
        /\ SubSeq(name, 14 + d, Len(name)) = ext

\* the resolver has returned for the current URL and headers
Resolved == pc = "resolved"

\* C1: for a URL whose percent-decoded path has a non-empty final segment with a
\* ".", the resolver returns exactly that segment whatever the declared
\* Content-Type is, and never reads the header
C1_PathExtensionWins ==
    (Resolved /\ HasPathExtension(url)) =>
        /\ filename = FinalSegment(DecodedPath(url))
        /\ ~ctConsulted
        /\ stamp = -1
        /\ \A h \in ResolverHeaders, t \in Times, id24 \in Ids :
               get_filename_from_url(url, h, t, id24) = filename

\* a URL with a path extension resolved against a mapped image type
C1_Witness ==
    /\ Resolved
    /\ HasPathExtension(url)
    /\ header = Hdr(<<"i", "m", "a", "g", "e", "/", "p", "n", "g">>)
    /\ filename = <<"a", ".", "b">>

\* the subtype of a declared type of the form image/<subtype>
Subtype(ct) == SubSeq(ct, 7, Len(ct))

\* the declared type has the form image/<subtype>: one "/", a non-empty subtype
IsImageSubtypeForm(ct) ==
    /\ Len(ct) > 6
    /\ SubSeq(ct, 1, 6) = <<"i", "m", "a", "g", "e", "/">>
    /\ \A i \in 1..Len(Subtype(ct)) : Subtype(ct)[i] # "/"

\* the extension the fixed mapping gives, else "." and the subtype
ExpectedExt(ct) ==
    IF \E e \in COMMON_IMAGE_EXT : e[1] = ct
    THEN (CHOOSE e \in COMMON_IMAGE_EXT : e[1] = ct)[2]
    ELSE <<".">> \o Subtype(ct)

\* C5: for a URL with no path extension and a declared type image/<subtype>
\* (case-insensitive, parameters stripped), the resolver returns
\* image_<digits>_<6 hex chars><ext>, ext from the fixed mapping when the type is
\* mapped (image/png: .png, image/jpeg: .jpg) and "." + subtype otherwise
\* (image/tiff: .tiff)
C5_GeneratedNameFromImageType ==
    (Resolved /\ ~HasPathExtension(url) /\ IsImageSubtypeForm(DeclaredType(header))) =>
        /\ MatchesGenerated(filename, ExpectedExt(DeclaredType(header)))
        /\ (DeclaredType(header) = <<"i", "m", "a", "g", "e", "/", "p", "n", "g">>
               => MatchesGenerated(filename, <<".", "p", "n", "g">>))
        /\ (DeclaredType(header) = <<"i", "m", "a", "g", "e", "/", "j", "p", "e", "g">>
               => MatchesGenerated(filename, <<".", "j", "p", "g">>))
        /\ (DeclaredType(header) = <<"i", "m", "a", "g", "e", "/", "t", "i", "f", "f">>
               => MatchesGenerated(filename, <<".", "t", "i", "f", "f">>))

\* an unmapped image type resolved for a URL without a path extension
C5_Witness ==
    /\ Resolved
    /\ ~HasPathExtension(url)
    /\ header = Hdr(<<"i", "m", "a", "g", "e", "/", "t", "i", "f", "f">>)
    /\ filename = <<"i", "m", "a", "g", "e", "_", "1", "0", "_",
                    "a", "a", "a", "a", "a", "a", ".", "t", "i", "f", "f">>

\* the declared type has no recognizable image subtype: absent, not image/..., or
\* image/ with nothing after it
NoImageSubtype(hdr) ==
    \/ ~hdr.present
    \/ Len(DeclaredType(hdr)) < 6
    \/ SubSeq(DeclaredType(hdr), 1, 6) # <<"i", "m", "a", "g", "e", "/">>
    \/ DeclaredType(hdr) = <<"i", "m", "a", "g", "e", "/">>

\* C6: for a URL with no path extension and a declared type without a
\* recognizable image subtype, the generated name's extension is .jpg
C6_DefaultsToJpg ==
    (Resolved /\ ~HasPathExtension(url) /\ NoImageSubtype(header)) =>
        MatchesGenerated(filename, <<".", "j", "p", "g">>)


\* ------------------------------------------------------------------------
\* Properties of the downloader
\* ------------------------------------------------------------------------

\* the concatenation of a sequence of chunks
RECURSIVE Concat(_)
Concat(cs) == IF cs = <<>> THEN <<>> ELSE Head(cs) \o Concat(Tail(cs))

\* the bytes of the file this invocation opened
DestBytes ==
    IF dest = "child" THEN files[filename]
    ELSE IF dest = "dirpath" THEN fetchFile
    ELSE <<>>

\* the response is a valid image response: 2xx and a declared type starting
\* with "image"
ValidImageResponse ==
    /\ status >= 200
    /\ status <= 299
    /\ Len(DeclaredType(header)) >= 5
    /\ SubSeq(DeclaredType(header), 1, 5) = <<"i", "m", "a", "g", "e">>

\* C2: when download_image succeeds on a valid image response, the destination
\* file holds the chunks' bytes concatenated in arrival order, and success is
\* reported only once every chunk that arrived has been written
C2_FileIsConcatenationOfChunks ==
    (ValidImageResponse /\ outcome = "Success") =>
        /\ pc = "done"
        /\ dest # "none"
        /\ DestBytes = Concat(arrived)

\* two different non-empty chunks were streamed into a file of the directory
C2_Witness ==
    /\ ValidImageResponse
    /\ outcome = "Success"
    /\ arrived = << <<2>>, <<1>> >>
    /\ dest = "child"
    /\ files[filename] = <<2, 1>>

C4_NotAnImage ==
    (/\ status >= 200
     /\ status <= 299
     /\ ~(/\ Len(DeclaredType(header)) >= 5
          /\ SubSeq(DeclaredType(header), 1, 5) = <<"i", "m", "a", "g", "e">>)) =>
        /\ pc \in {"check", "done"}
        /\ (pc = "done" => outcome = "NotAnImage")
        /\ resolverCalls = 0
        /\ filename = <<>>
        /\ arrived = <<>>
        /\ created = {}
        /\ dest = "none"

\* a text/html response was turned away
C4_Witness ==
    /\ status = 200
    /\ header = Hdr(<<"t", "e", "x", "t", "/", "h", "t", "m", "l">>)
    /\ pc = "done"
    /\ outcome = "NotAnImage"

\* this invocation saved under a generated name the response the previous one saved
SameResponseSavedTwice ==
    /\ prev.saved
    /\ outcome = "Success"
    /\ ctConsulted
    /\ url = prev.url
    /\ header = prev.header
    /\ Concat(arrived) = prev.bytes

DirectoryUnavailable == dirState # "dir"

\* C8: when the fetch directory cannot be created or is missing, the invocation
\* ends in WriteError: nothing propagates out of the program, no Success
C8_DirectoryFailureIsWriteError ==
    (/\ pc = "done"
     /\ DirectoryUnavailable
     /\ outcome \notin {"InvalidInput", "NetworkError", "NotAnImage"}) =>
        outcome = "WriteError"

\* C9: a network-level failure of the GET, before the headers or while the body
\* streams, ends the invocation in NetworkError, and the GET is issued at most once
C9_NetworkFailureIsNetworkError ==
    /\ getCount <= 1
    /\ ((pc = "done" /\ netFail # "none") => outcome = "NetworkError")

\* C10: every file download_image creates, truncates or writes is a direct
\* child of the fetch directory, and the resolved name holds no path separator
C10_WritesStayInFetchDir ==
    /\ \A i \in 1..Len(filename) : filename[i] # "/"
    /\ \A fp \in created :
           /\ ~fp.absolute
           /\ Len(fp.parts) = 2
           /\ fp.parts[1] = FETCH_DIR
           /\ fp.parts[2] \notin {<<".">>, <<".", ".">>}

====
